---- MODULE Spec2Model ----
(***************************************************************************)
(* Model of cleanup.py: the ECS task definition cleanup.                    *)
(*                                                                         *)
(*   Spec       a whole run of main(): arguments, usage collection,        *)
(*              reconciliation, deregistration and deletion through        *)
(*              process_aws_api_batch_throttle, against a small ECS.       *)
(*   SpecExec   process_aws_api_batch_throttle alone, on any work list,    *)
(*              any batch_size >= 1 and any api_handler.                   *)
(*   SpecChunk  ecs_cluster_task_definition_arn_list alone, on task lists  *)
(*              long enough to need several describe_tasks calls.          *)
(*   SpecCanon  canonical_task_definition_arn alone, on any short string.  *)
(*                                                                         *)
(* Strings that the code slices (ARNs) are sequences of characters.        *)
(***************************************************************************)
EXTENDS Integers, Sequences, FiniteSets, TLC

\* ------------------------------------------------------------------ bounds

\* Tasks running in the ECS of a whole run.
MaxTasks == 2
\* Items of the work list handed to the executor alone.
MaxLen == 4
\* batch_size values tried for the executor alone.
MaxBatch == 3
\* Failed api_handler calls when the executor runs alone (the code retries
\* without a bound).
MaxRetry == 2
\* Failed api_handler calls in each executor run of a whole run.
MaxRunRetry == 1
\* Items list_task_definitions returns per page.
PageSize == 2
\* Tasks listed for the cluster when the chunked resolution runs alone.
MaxChunkTasks == 250
\* Characters of the string canonical_task_definition_arn is applied to.
MaxArnLen == 5
\* Successive applications of canonical_task_definition_arn.
MaxStrips == 2
\* The most task definitions of a large ECS: over twice the delete batch.
MaxBulk == 21

\* ------------------------------------------------------- program constants

ECS_TASK_QUERY_BATCH_SIZE == 100
ECS_TASK_DEFINITION_DELETE_BATCH_SIZE == 10
\* batch_size of the deregistration run, a literal of main().
DEREGISTER_BATCH_SIZE == 1

\* --------------------------------------------------------- python helpers

Min(a, b) == IF a < b THEN a ELSE b
Max(a, b) == IF a > b THEN a ELSE b

\* The index python's slice s[:e] stops at: a negative e counts from the end.
SliceEnd(s, e) == IF e < 0 THEN Max(e + Len(s), 0) ELSE Min(e, Len(s))

\* s[:e]
PySliceTo(s, e) == SubSeq(s, 1, SliceEnd(s, e))

\* s after `del s[:e]`
PyDelTo(s, e) == SubSeq(s, SliceEnd(s, e) + 1, Len(s))

\* s.rfind(ch): the 0-based index of the last ch, -1 when there is none.
PyRFind(s, ch) ==
    LET hits == {i \in 1..Len(s) : s[i] = ch}
    IN  IF hits = {} THEN -1
        ELSE (CHOOSE i \in hits : \A j \in hits : j <= i) - 1

RECURSIVE Concat(_)
Concat(ss) == IF ss = <<>> THEN <<>> ELSE Head(ss) \o Concat(Tail(ss))

Range(s) == {s[i] : i \in 1..Len(s)}

\* Sequences over S of length at most n.
SeqsUpTo(S, n) == UNION {[1..k -> S] : k \in 0..n}

\* Number of places of s that hold v.
Count(s, v) == Cardinality({i \in 1..Len(s) : s[i] = v})

\* ----------------------------------------------------------------- ARNs

\* A task definition ARN "arn:<family>:<revision>" as its characters; "arn"
\* stands for the prefix up to the family, which holds colons of its own.
Arn(family, revision) == <<"arn", ":", family, ":", revision>>

\* The task definitions the ECS knows, in the order it lists them.
ArnList == <<Arn("A", "1"), Arn("A", "2"), Arn("B", "1")>>
Arns == Range(ArnList)

\* The task definitions of a large ECS: n revisions of one family, in the
\* order the ECS lists them.
BulkArnList(n) == [i \in 1..n |-> Arn("F", ToString(i))]

\* canonical_task_definition_arn, mutated: a string without ":" is kept whole.
canonical_keep_without_colon(task_definition_arn) ==
    LET end_cut == PyRFind(task_definition_arn, ":")
    IN  IF end_cut < 0 THEN task_definition_arn
        ELSE PySliceTo(task_definition_arn, end_cut)

canonical_task_definition_arn(task_definition_arn) ==
    LET end_cut == PyRFind(task_definition_arn, ":")
    IN  PySliceTo(task_definition_arn, end_cut)

dryrun_message(c) == IF ~c THEN " (DRYRUN)" ELSE ""

\* ------------------------------------------------------------------ state

VARIABLES
    \* read_arguments(): "none" stands for None
    set_inactive_mode, delete_inactive, commit,
    \* history: <<>>, or the one earlier run of the program on this ECS: where
    \* it ended, its commit flag, its calls on the client and what it printed
    previous,
    \* the ECS: each definition's status, list_clusters' answer, the tasks
    remote_status, remote_clusters, remote_tasks,
    \* where the run is
    pc,
    \* main(): the clusters the for loop has yet to visit
    cluster_queue,
    \* main() and ecs_cluster_task_definition_arn_list share this list
    task_arn_list,
    \* arn_list and next_token of the listing function that is running
    arn_list, next_token,
    definition_in_use_arn_list, definition_in_use_canonical_arn_set,
    active_arn_list, inactive_arn_list,
    \* process_aws_api_batch_throttle: its arguments
    process_list, batch_size, api_handler,
    \* history: process_list as the executor received it
    initial_list,
    \* history: every api_handler call, and every call made on the client
    attempts, calls,
    \* what was printed
    output,
    \* canonical_task_definition_arn alone: the string, and the times stripped
    arn_value, strips

\* The invocation: its arguments, and the run it follows.
argVars == <<set_inactive_mode, delete_inactive, commit, previous>>
remoteVars == <<remote_status, remote_clusters, remote_tasks>>
collectVars == <<cluster_queue, task_arn_list, arn_list, next_token,
                 definition_in_use_arn_list, definition_in_use_canonical_arn_set>>
listVars == <<active_arn_list, inactive_arn_list>>
execVars == <<process_list, batch_size, api_handler, initial_list, attempts>>
canonVars == <<arn_value, strips>>
vars == <<argVars, remoteVars, pc, collectVars, listVars, execVars, calls,
          output, canonVars>>

\* ---------------------------------------------------------------- the ECS

Clusters == {1, 2}
\* What list_clusters may answer: the code sorts it.
ClusterListings == {<<>>, <<1>>, <<2, 1>>}

Statuses == {"ACTIVE", "INACTIVE"}

\* list_tasks: the tasks of the cluster, a task being its place in remote_tasks.
TasksOf(tasks, cluster_arn) ==
    SelectSeq([i \in 1..Len(tasks) |-> i], LAMBDA t : tasks[t].cluster = cluster_arn)

\* describe_tasks: the task definition of each task asked for.
DescribeTasksResp(tasks, query_arn_list) ==
    [i \in 1..Len(query_arn_list) |-> tasks[query_arn_list[i]].def]

\* The order in which the ECS lists the definitions it knows.
ListingOrder(st) ==
    IF DOMAIN st = Arns THEN ArnList ELSE BulkArnList(Cardinality(DOMAIN st))

\* The whole listing of the definitions in `status`, in the ECS's order.
Listing(st, status) == SelectSeq(ListingOrder(st), LAMBDA a : st[a] = status)

\* list_task_definitions: one page from the token (an offset, 0 for ""), and the
\* next token, 0 when the response carries none.
ListPage(st, status, token) ==
    LET all == Listing(st, status)
        upto == Min(token + PageSize, Len(all))
    IN  [taskDefinitionArns |-> SubSeq(all, token + 1, upto),
         nextToken |-> IF upto < Len(all) THEN upto ELSE 0]

QueryOutcomes == {"ok", "error"}

Call(op, arg, outcome) == [op |-> op, arg |-> arg, outcome |-> outcome]

\* ------------------------------------------------------------ the reconciler

\* The loop of main() over active_arn_list, mutated: the retain-versions test
\* is applied under every policy.
UnusedAlwaysRetain(active, mode, in_use, in_use_canonical) ==
    SelectSeq(active, LAMBDA a :
        /\ canonical_task_definition_arn(a) \notin in_use_canonical
        /\ a \notin Range(in_use))

\* The loop of main() over active_arn_list, mutated: the direct-use test is
\* skipped once the canonical test has passed.
UnusedCanonicalOnly(active, mode, in_use, in_use_canonical) ==
    SelectSeq(active, LAMBDA a :
        IF mode = "retain-versions"
        THEN canonical_task_definition_arn(a) \notin in_use_canonical
        ELSE TRUE)

\* The loop of main() over active_arn_list, mutated: the canonical test is
\* applied under "aggressive" instead of "retain-versions".
UnusedPolicySwapped(active, mode, in_use, in_use_canonical) ==
    SelectSeq(active, LAMBDA a :
        /\ ~(mode = "aggressive"
             /\ canonical_task_definition_arn(a) \in in_use_canonical)
        /\ a \notin Range(in_use))

\* The loop of main() over active_arn_list, mutated: an unused definition is
\* put at the front of unused_arn_list.
UnusedInsertedFirst(active, mode, in_use, in_use_canonical) ==
    LET kept == SelectSeq(active, LAMBDA a :
                    /\ ~(mode = "retain-versions"
                         /\ canonical_task_definition_arn(a) \in in_use_canonical)
                    /\ a \notin Range(in_use))
    IN  [i \in 1..Len(kept) |-> kept[Len(kept) + 1 - i]]

\* The loop of main() over active_arn_list: unused_arn_list.
RECURSIVE Unused(_, _, _, _)
Unused(active, mode, in_use, in_use_canonical) ==
    IF active = <<>> THEN <<>>
    ELSE LET active_arn == Head(active)
             rest == Unused(Tail(active), mode, in_use, in_use_canonical)
         IN  IF /\ mode = "retain-versions"
                /\ canonical_task_definition_arn(active_arn) \in in_use_canonical
             THEN rest
             ELSE IF active_arn \notin Range(in_use)
                  THEN <<active_arn>> \o rest
                  ELSE rest

\* ------------------------------------------------------------- the executor

\* process_list[:batch_size], mutated: the batch is taken from the back.
BatchFromBack(list, size) == SubSeq(list, Len(list) - Min(size, Len(list)) + 1, Len(list))

\* process_list[:batch_size], mutated: the whole list is one batch.
BatchWhole(list, size) == list

\* process_list[:batch_size]
Batch(list, size) == PySliceTo(list, size)

\* del process_list[:batch_size], mutated: one item is removed whatever the batch.
AfterBatchDropOne(list, size) == PyDelTo(list, 1)

\* del process_list[:batch_size]
AfterBatch(list, size) == PyDelTo(list, size)

\* `if commit:` of both handlers, mutated: the flag is not consulted.
HandlerCallsClientAlways(handler, c) == handler \in {"deregister", "delete"}

\* Whether the handler goes on to call the client: `if commit:` of both handlers.
HandlerCallsClient(handler, c) == handler \in {"deregister", "delete"} /\ c

\* How an api_handler call can end: "throttled" is a ClientError with the code
\* ThrottlingException, "client_error" a ClientError with another code,
\* "exception" any other exception. A handler that only prints returns.
HandlerOutcomes(handler, c) ==
    IF handler = "abstract" \/ HandlerCallsClient(handler, c)
    THEN {"ok", "throttled", "client_error", "exception"}
    ELSE {"ok"}

\* What the handler prints, mutated: the lines are printed under `if commit:`.
HandlerOutputIfCommit(handler, batch, c) ==
    IF ~c THEN <<>>
    ELSE IF handler = "deregister"
         THEN <<<<"Deregister", batch[1], dryrun_message(c)>>>>
         ELSE [i \in 1..Len(batch) |-> <<"Delete", batch[i], dryrun_message(c)>>]

\* What the handler prints before it calls the client.
HandlerOutput(handler, batch, c) ==
    CASE handler = "deregister" -> <<<<"Deregister", batch[1], dryrun_message(c)>>>>
      [] handler = "delete" ->
            [i \in 1..Len(batch) |-> <<"Delete", batch[i], dryrun_message(c)>>]
      [] OTHER -> <<>>

\* The call the handler makes on the client.
HandlerCall(handler, batch, outcome) ==
    IF handler = "deregister"
    THEN Call("deregister_task_definition", <<batch[1]>>, outcome)
    ELSE Call("delete_task_definitions", batch, outcome)

\* The ECS after the handler's call has succeeded.
HandlerEffect(st, handler, batch) ==
    IF handler = "deregister"
    THEN [st EXCEPT ![batch[1]] = "INACTIVE"]
    ELSE [a \in DOMAIN st |-> IF a \in Range(batch) THEN "DELETE_IN_PROGRESS" ELSE st[a]]

Failures(log) == Cardinality({i \in 1..Len(log) : log[i].outcome # "ok"})

\* ------------------------------------------------------------------ main()

\* The delete branch of main() up to its first call on the client.
EnterDelete(out) ==
    /\ output' = out \o << <<"Mark INACTIVE ECS task definitions for deletion",
                             dryrun_message(commit)>>,
                           <<"Fetching INACTIVE ECS task definitions">> >>
    /\ arn_list' = <<>>
    /\ next_token' = 0
    /\ pc' = "list_inactive"

\* The test of read_arguments(), mutated: the error needs --delete-inactive.
UsageErrorInverted(mode, delete) == mode = "none" /\ delete

\* The test of read_arguments() that ends in exit_error().
UsageError(mode, delete) == mode = "none" /\ ~delete

\* read_arguments() and main() up to the first call on the client, or to the
\* end of main() when neither branch is taken.
ReadArguments ==
    /\ pc = "start"
    /\ IF UsageError(set_inactive_mode, delete_inactive)
       THEN /\ output' = Append(output,
                  <<"Error: must supply at least one of --set-inactive or --delete-inactive">>)
            /\ pc' = "exit"
            /\ UNCHANGED <<calls, arn_list, next_token>>
       ELSE /\ calls' = Append(calls, Call("client", <<>>, "ok"))
            /\ IF set_inactive_mode # "none"
               THEN /\ output' = Append(output,
                          <<"Setting unused ECS task definitions ACTIVE -> INACTIVE",
                            dryrun_message(commit)>>)
                    /\ pc' = "list_clusters"
                    /\ UNCHANGED <<arn_list, next_token>>
               ELSE IF delete_inactive
                    THEN EnterDelete(output)
                    ELSE /\ pc' = "done"
                         /\ UNCHANGED <<output, arn_list, next_token>>
    /\ UNCHANGED <<argVars, remoteVars, cluster_queue, task_arn_list,
                   definition_in_use_arn_list, definition_in_use_canonical_arn_set,
                   listVars, execVars, canonVars>>

\* ecs_cluster_arn_list(): list_clusters, sorted.
ListClusters ==
    /\ pc = "list_clusters"
    /\ \E outcome \in QueryOutcomes :
         /\ calls' = Append(calls, Call("list_clusters", <<>>, outcome))
         /\ IF outcome = "ok"
            THEN /\ cluster_queue' = SortSeq(remote_clusters, <)
                 /\ pc' = "cluster_loop"
            ELSE /\ pc' = "raised"
                 /\ UNCHANGED cluster_queue
    /\ UNCHANGED <<argVars, remoteVars, task_arn_list, arn_list, next_token,
                   definition_in_use_arn_list, definition_in_use_canonical_arn_set,
                   listVars, execVars, output, canonVars>>

\* ListTasks, mutated: a failure of list_tasks is caught and the cluster is
\* taken to run no task.
ListTasksCatchesFailure ==
    /\ pc = "cluster_loop"
    /\ cluster_queue # <<>>
    /\ LET cluster_arn == Head(cluster_queue)
       IN  /\ output' = Append(output, <<"Processing ECS cluster", cluster_arn>>)
           /\ \E outcome \in QueryOutcomes :
                /\ calls' = Append(calls, Call("list_tasks", <<cluster_arn>>, outcome))
                /\ task_arn_list' = IF outcome = "ok" THEN TasksOf(remote_tasks, cluster_arn)
                                    ELSE <<>>
                /\ arn_list' = <<>>
                /\ pc' = "describe"
    /\ UNCHANGED <<argVars, remoteVars, cluster_queue, next_token,
                   definition_in_use_arn_list, definition_in_use_canonical_arn_set,
                   listVars, execVars, canonVars>>

\* The for loop of main() takes the next cluster: ecs_cluster_task_arn_list().
ListTasks ==
    /\ pc = "cluster_loop"
    /\ cluster_queue # <<>>
    /\ LET cluster_arn == Head(cluster_queue)
       IN  /\ output' = Append(output, <<"Processing ECS cluster", cluster_arn>>)
           /\ \E outcome \in QueryOutcomes :
                /\ calls' = Append(calls, Call("list_tasks", <<cluster_arn>>, outcome))
                /\ IF outcome = "ok"
                   THEN /\ task_arn_list' = TasksOf(remote_tasks, cluster_arn)
                        /\ arn_list' = <<>>
                        /\ pc' = "describe"
                   ELSE /\ pc' = "raised"
                        /\ UNCHANGED <<task_arn_list, arn_list>>
    /\ UNCHANGED <<argVars, remoteVars, cluster_queue, next_token,
                   definition_in_use_arn_list, definition_in_use_canonical_arn_set,
                   listVars, execVars, canonVars>>

\* task_arn_list[:ECS_TASK_QUERY_BATCH_SIZE]
QueryChunk(list) == PySliceTo(list, ECS_TASK_QUERY_BATCH_SIZE)

\* del task_arn_list[:ECS_TASK_QUERY_BATCH_SIZE], mutated: one item fewer leaves.
AfterQueryChunkShort(list) == PyDelTo(list, ECS_TASK_QUERY_BATCH_SIZE - 1)

\* del task_arn_list[:ECS_TASK_QUERY_BATCH_SIZE]
AfterQueryChunk(list) == PyDelTo(list, ECS_TASK_QUERY_BATCH_SIZE)

\* One turn of the while loop of ecs_cluster_task_definition_arn_list().
DescribeTasks ==
    /\ pc = "describe"
    /\ task_arn_list # <<>>
    /\ LET cluster_arn == Head(cluster_queue)
           query_arn_list == QueryChunk(task_arn_list)
       IN  /\ task_arn_list' = AfterQueryChunk(task_arn_list)
           /\ \E outcome \in QueryOutcomes :
                /\ calls' = Append(calls, Call("describe_tasks", query_arn_list, outcome))
                /\ IF outcome = "ok"
                   THEN /\ arn_list' = arn_list \o DescribeTasksResp(remote_tasks, query_arn_list)
                        /\ pc' = "describe"
                   ELSE /\ pc' = "raised"
                        /\ UNCHANGED arn_list
    /\ UNCHANGED <<argVars, remoteVars, cluster_queue, next_token,
                   definition_in_use_arn_list, definition_in_use_canonical_arn_set,
                   listVars, execVars, output, canonVars>>

\* ecs_cluster_task_definition_arn_list() returns, and main() ends the turn of
\* its for loop: the in-use collections grow and the task count is printed.
ClusterDone ==
    /\ pc = "describe"
    /\ task_arn_list = <<>>
    /\ LET in_use_arn_list == arn_list
       IN  /\ definition_in_use_arn_list' = definition_in_use_arn_list \o in_use_arn_list
           /\ definition_in_use_canonical_arn_set' =
                definition_in_use_canonical_arn_set \cup
                {canonical_task_definition_arn(a) : a \in Range(in_use_arn_list)}
    /\ output' = Append(output, <<"Task count", Len(task_arn_list)>>)
    /\ cluster_queue' = Tail(cluster_queue)
    /\ pc' = "cluster_loop"
    /\ UNCHANGED <<argVars, remoteVars, task_arn_list, arn_list, next_token,
                   listVars, execVars, calls, canonVars>>

\* The for loop of main() is over: the ACTIVE listing starts.
ClustersDone ==
    /\ pc = "cluster_loop"
    /\ cluster_queue = <<>>
    /\ output' = Append(output, <<"Fetching ACTIVE ECS task definitions">>)
    /\ arn_list' = <<>>
    /\ next_token' = 0
    /\ pc' = "list_active"
    /\ UNCHANGED <<argVars, remoteVars, cluster_queue, task_arn_list,
                   definition_in_use_arn_list, definition_in_use_canonical_arn_set,
                   listVars, execVars, calls, canonVars>>

\* The status arguments of main(), mutated: the two listings are swapped.
ListingStatusSwapped == IF pc = "list_active" THEN "INACTIVE" ELSE "ACTIVE"

\* The status arguments of main(), mutated: the delete branch lists ACTIVE too.
ListingStatusActive == "ACTIVE"

\* The status argument of the listing main() is at.
ListingStatus == IF pc = "list_active" THEN "ACTIVE" ELSE "INACTIVE"

\* process_aws_api_batch_throttle is entered.
EnterExecutor(list, size, handler) ==
    /\ process_list' = list
    /\ initial_list' = list
    /\ batch_size' = size
    /\ api_handler' = handler
    /\ attempts' = <<>>
    /\ pc' = "exec"

\* One turn of the while loop of ecs_task_definition_arn_list(); on the last
\* page the function returns and main() runs on to the executor: for the
\* ACTIVE listing through the reconciler, for the INACTIVE one directly.
ListTaskDefinitions ==
    /\ pc \in {"list_active", "list_inactive"}
    /\ \E outcome \in QueryOutcomes :
         /\ calls' = Append(calls,
               Call("list_task_definitions", <<ListingStatus, next_token>>, outcome))
         /\ IF outcome = "error"
            THEN /\ pc' = "raised"
                 /\ UNCHANGED <<arn_list, next_token, listVars, execVars, output>>
            ELSE LET resp == ListPage(remote_status, ListingStatus, next_token)
                     listed == arn_list \o resp.taskDefinitionArns
                 IN  IF resp.nextToken # 0
                     THEN /\ arn_list' = listed
                          /\ next_token' = resp.nextToken
                          /\ UNCHANGED <<pc, listVars, execVars, output>>
                     ELSE /\ arn_list' = listed
                          /\ UNCHANGED next_token
                          /\ IF pc = "list_active"
                             THEN LET unused_arn_list ==
                                        Unused(listed, set_inactive_mode,
                                               definition_in_use_arn_list,
                                               definition_in_use_canonical_arn_set)
                                  IN  /\ active_arn_list' = listed
                                      /\ UNCHANGED inactive_arn_list
                                      /\ output' = output \o
                                           << <<"Definition count", Len(listed)>>,
                                              <<"Unused definition count", Len(unused_arn_list)>> >>
                                      /\ EnterExecutor(unused_arn_list, DEREGISTER_BATCH_SIZE,
                                                       "deregister")
                             ELSE /\ inactive_arn_list' = listed
                                  /\ UNCHANGED active_arn_list
                                  /\ output' = Append(output, <<"Definition count", Len(listed)>>)
                                  /\ EnterExecutor(listed, ECS_TASK_DEFINITION_DELETE_BATCH_SIZE,
                                                   "delete")
    /\ UNCHANGED <<argVars, remoteVars, cluster_queue, task_arn_list,
                   definition_in_use_arn_list, definition_in_use_canonical_arn_set,
                   canonVars>>

\* ------------------------------------------- process_aws_api_batch_throttle

\* `except botocore.exceptions.ClientError` as section 4.3 of the specification
\* has it: a ClientError with a code other than ThrottlingException is raised
\* again. Propagates below is what the code does.
PropagatesOtherClientError(outcome) == outcome \in {"client_error", "exception"}

\* `except botocore.exceptions.ClientError`, mutated: the rate-limit signal is
\* not caught either.
PropagatesThrottled(outcome) == outcome \in {"throttled", "exception"}

\* Whether the failure leaves the executor: only ClientError is caught, and
\* nothing raises it again whatever its code.
Propagates(outcome) == outcome = "exception"

\* Whether the executor sleeps after the attempt: `time.sleep(2)` under
\* `if error_code == "ThrottlingException"`.
Sleeps(outcome) == outcome = "throttled"

\* One turn of the while loop: api_handler is called with the next batch and
\* ends in `outcome`.
ExecAttempt(outcome) ==
    /\ pc = "exec"
    /\ process_list # <<>>
    /\ outcome \in HandlerOutcomes(api_handler, commit)
    /\ outcome # "ok" =>
          Failures(attempts) < (IF api_handler = "abstract" THEN MaxRetry ELSE MaxRunRetry)
    /\ LET batch == Batch(process_list, batch_size)
           called == HandlerCallsClient(api_handler, commit)
           left == IF outcome = "ok" THEN AfterBatch(process_list, batch_size)
                   ELSE process_list
       IN  /\ output' = output \o HandlerOutput(api_handler, batch, commit) \o
                 (IF Sleeps(outcome)
                  THEN << <<"Warning: API rate limit exceeded - sleeping for a moment">> >>
                  ELSE <<>>)
           /\ calls' = IF called THEN Append(calls, HandlerCall(api_handler, batch, outcome))
                       ELSE calls
           /\ remote_status' = IF called /\ outcome = "ok"
                               THEN HandlerEffect(remote_status, api_handler, batch)
                               ELSE remote_status
           /\ process_list' = left
           \* inactive_arn_list is the very list the executor empties
           /\ inactive_arn_list' = IF api_handler = "delete" THEN left ELSE inactive_arn_list
           /\ attempts' = Append(attempts,
                 [batch |-> batch, outcome |-> outcome, before |-> process_list,
                  after |-> left, slept |-> Sleeps(outcome)])
           /\ pc' = IF Propagates(outcome) THEN "raised" ELSE "exec"
    /\ UNCHANGED <<argVars, remote_clusters, remote_tasks, collectVars, active_arn_list,
                   batch_size, api_handler, initial_list, canonVars>>

\* api_handler returns: the batch leaves the list.
ExecSuccess == ExecAttempt("ok")

\* api_handler raises ClientError with the code ThrottlingException.
ExecThrottled == ExecAttempt("throttled")

\* api_handler raises ClientError with another code.
ExecClientError == ExecAttempt("client_error")

\* api_handler raises an exception that is no ClientError.
ExecException == ExecAttempt("exception")

\* The while loop ends and the executor returns to main().
ExecReturn ==
    /\ pc = "exec"
    /\ process_list = <<>>
    /\ IF api_handler = "deregister" /\ delete_inactive
       THEN EnterDelete(output)
       ELSE /\ pc' = "done"
            /\ UNCHANGED <<arn_list, next_token, output>>
    /\ UNCHANGED <<argVars, remoteVars, cluster_queue, task_arn_list,
                   definition_in_use_arn_list, definition_in_use_canonical_arn_set,
                   listVars, execVars, calls, canonVars>>

\* canonical_task_definition_arn is applied to the string once more.
StripVersion ==
    /\ pc = "canon"
    /\ strips < MaxStrips
    /\ arn_value' = canonical_task_definition_arn(arn_value)
    /\ strips' = strips + 1
    /\ UNCHANGED <<argVars, remoteVars, pc, collectVars, listVars, execVars, calls, output>>

\* The program has ended and is run once more on the same ECS, with the same
\* modes and with --commit as given.
Restart(new_commit) ==
    /\ previous = <<>>
    /\ pc \in {"done", "raised", "exit"}
    /\ previous' = <<[pc |-> pc, commit |-> commit, calls |-> calls, output |-> output]>>
    /\ commit' = new_commit
    /\ pc' = "start"
    /\ cluster_queue' = <<>>
    /\ task_arn_list' = <<>>
    /\ arn_list' = <<>>
    /\ next_token' = 0
    /\ definition_in_use_arn_list' = <<>>
    /\ definition_in_use_canonical_arn_set' = {}
    /\ active_arn_list' = <<>>
    /\ inactive_arn_list' = <<>>
    /\ process_list' = <<>>
    /\ initial_list' = <<>>
    /\ batch_size' = 0
    /\ api_handler' = "none"
    /\ attempts' = <<>>
    /\ calls' = <<>>
    /\ output' = <<>>
    /\ UNCHANGED <<set_inactive_mode, delete_inactive, remoteVars, canonVars>>

\* A dry run that came to its end is followed by the same run with --commit.
RunCommitted ==
    /\ ~commit
    /\ pc = "done"
    /\ Restart(TRUE)

\* --------------------------------------------------------- specifications

\* Nothing has run yet.
Idle ==
    /\ cluster_queue = <<>>
    /\ task_arn_list = <<>>
    /\ arn_list = <<>>
    /\ next_token = 0
    /\ definition_in_use_arn_list = <<>>
    /\ definition_in_use_canonical_arn_set = {}
    /\ active_arn_list = <<>>
    /\ inactive_arn_list = <<>>
    /\ attempts = <<>>
    /\ arn_value = <<>>
    /\ strips = 0
    /\ previous = <<>>

Init ==
    /\ set_inactive_mode \in {"none", "retain-versions", "aggressive"}
    /\ delete_inactive \in BOOLEAN
    /\ commit \in BOOLEAN
    /\ remote_status \in [Arns -> Statuses]
    /\ remote_clusters \in ClusterListings
    /\ remote_tasks \in SeqsUpTo([cluster : Range(remote_clusters), def : Arns], MaxTasks)
    /\ pc = "start"
    /\ Idle
    /\ process_list = <<>>
    /\ initial_list = <<>>
    /\ batch_size = 0
    /\ api_handler = "none"
    /\ calls = <<>>
    /\ output = <<>>

Next ==
    \/ ReadArguments
    \/ ListClusters
    \/ ListTasks
    \/ DescribeTasks
    \/ ClusterDone
    \/ ClustersDone
    \/ ListTaskDefinitions
    \/ ExecSuccess
    \/ ExecThrottled
    \/ ExecClientError
    \/ ExecException
    \/ ExecReturn

Spec == Init /\ [][Next]_vars

\* The executor alone: any work list, any batch_size >= 1, any api_handler.
InitExec ==
    /\ set_inactive_mode = "none"
    /\ delete_inactive = FALSE
    /\ commit = FALSE
    /\ previous = <<>>
    /\ remote_status = [a \in Arns |-> "ACTIVE"]
    /\ remote_clusters = <<>>
    /\ remote_tasks = <<>>
    /\ pc = "exec"
    /\ Idle
    /\ process_list \in SeqsUpTo(Arns, MaxLen)
    /\ initial_list = process_list
    /\ batch_size \in 1..MaxBatch
    /\ api_handler = "abstract"
    /\ calls = <<>>
    /\ output = <<>>

\* A dry run, and after it the same run with --commit.
InitPreview ==
    /\ Init
    /\ ~commit

NextPreview ==
    \/ Next
    \/ RunCommitted

SpecPreview == InitPreview /\ [][NextPreview]_vars

\* main() against a large ECS where no task runs: up to MaxBulk definitions
\* of one family, all ACTIVE or all INACTIVE.
InitBulk ==
    /\ set_inactive_mode = "aggressive"
    /\ delete_inactive = TRUE
    /\ commit \in BOOLEAN
    /\ \E n \in 0..MaxBulk, status \in Statuses :
         remote_status = [a \in Range(BulkArnList(n)) |-> status]
    /\ remote_clusters = <<>>
    /\ remote_tasks = <<>>
    /\ pc = "start"
    /\ Idle
    /\ process_list = <<>>
    /\ initial_list = <<>>
    /\ batch_size = 0
    /\ api_handler = "none"
    /\ calls = <<>>
    /\ output = <<>>

NextBulk ==
    \/ ReadArguments
    \/ ListClusters
    \/ ClustersDone
    \/ ListTaskDefinitions
    \/ ExecSuccess
    \/ ExecThrottled
    \/ ExecClientError
    \/ ExecException
    \/ ExecReturn

SpecBulk == InitBulk /\ [][NextBulk]_vars

\* The program is invoked again with the same arguments, after a run that
\* ended or was aborted.
RunAgain ==
    /\ pc \in {"done", "raised"}
    /\ Restart(commit)

\* A committed --set-inactive run without --delete-inactive, and after it the
\* same run again.
InitRetry ==
    /\ Init
    /\ commit
    /\ set_inactive_mode # "none"
    /\ ~delete_inactive

NextRetry ==
    \/ Next
    \/ RunAgain

SpecRetry == InitRetry /\ [][NextRetry]_vars

NextExec ==
    \/ ExecSuccess
    \/ ExecThrottled
    \/ ExecClientError
    \/ ExecException
    \/ ExecReturn

SpecExec == InitExec /\ [][NextExec]_vars

\* The executor alone, as a program that keeps running: a step that can be
\* taken is taken.
SpecExecFair == InitExec /\ [][NextExec]_vars /\ WF_vars(NextExec)

\* The definition the ECS gives task i when the chunked resolution runs alone.
ChunkDef(i, shift) == ArnList[((i + shift) % Len(ArnList)) + 1]

\* The chunked resolution alone: main() has listed the n tasks of its one cluster.
InitChunk ==
    /\ set_inactive_mode = "retain-versions"
    /\ delete_inactive = FALSE
    /\ commit = FALSE
    /\ previous = <<>>
    /\ remote_status = [a \in Arns |-> "ACTIVE"]
    /\ remote_clusters = <<1>>
    /\ \E n \in 0..MaxChunkTasks, shift \in 0..(Len(ArnList) - 1) :
         remote_tasks = [i \in 1..n |-> [cluster |-> 1, def |-> ChunkDef(i, shift)]]
    /\ pc = "describe"
    /\ cluster_queue = <<1>>
    /\ task_arn_list = TasksOf(remote_tasks, 1)
    /\ arn_list = <<>>
    /\ next_token = 0
    /\ definition_in_use_arn_list = <<>>
    /\ definition_in_use_canonical_arn_set = {}
    /\ active_arn_list = <<>>
    /\ inactive_arn_list = <<>>
    /\ attempts = <<>>
    /\ arn_value = <<>>
    /\ strips = 0
    /\ process_list = <<>>
    /\ initial_list = <<>>
    /\ batch_size = 0
    /\ api_handler = "none"
    /\ calls = <<Call("client", <<>>, "ok"), Call("list_clusters", <<>>, "ok"),
                 Call("list_tasks", <<1>>, "ok")>>
    /\ output = << <<"Setting unused ECS task definitions ACTIVE -> INACTIVE",
                     dryrun_message(commit)>>,
                   <<"Processing ECS cluster", 1>> >>

NextChunk ==
    \/ DescribeTasks
    \/ ClusterDone

SpecChunk == InitChunk /\ [][NextChunk]_vars

\* The characters of the strings canonical_task_definition_arn is tried on.
CanonChars == {"a", "1", ":"}

\* canonical_task_definition_arn alone, on any string of CanonChars.
InitCanon ==
    /\ set_inactive_mode = "none"
    /\ delete_inactive = FALSE
    /\ commit = FALSE
    /\ previous = <<>>
    /\ remote_status = [a \in Arns |-> "ACTIVE"]
    /\ remote_clusters = <<>>
    /\ remote_tasks = <<>>
    /\ pc = "canon"
    /\ cluster_queue = <<>>
    /\ task_arn_list = <<>>
    /\ arn_list = <<>>
    /\ next_token = 0
    /\ definition_in_use_arn_list = <<>>
    /\ definition_in_use_canonical_arn_set = {}
    /\ active_arn_list = <<>>
    /\ inactive_arn_list = <<>>
    /\ attempts = <<>>
    /\ arn_value \in SeqsUpTo(CanonChars, MaxArnLen)
    /\ strips = 0
    /\ process_list = <<>>
    /\ initial_list = <<>>
    /\ batch_size = 0
    /\ api_handler = "none"
    /\ calls = <<>>
    /\ output = <<>>

NextCanon == StripVersion

SpecCanon == InitCanon /\ [][NextCanon]_vars

\* ----------------------------------------------------------------- claims

\* The batches whose api_handler call returned, in submission order.
SuccessfulBatches ==
    LET ok == SelectSeq(attempts, LAMBDA a : a.outcome = "ok")
    IN  [i \in 1..Len(ok) |-> ok[i].batch]

\* C1: when the executor returns, the work list is empty and every element of
\* the original list is in exactly one successful batch: each value is in the
\* successful batches as many times as in the original list.
BatchCompleteness ==
    pc = "done" =>
        /\ process_list = <<>>
        /\ \A v \in Arns :
             Count(Concat(SuccessfulBatches), v) = Count(initial_list, v)

\* C1 happens: a list of 3, a non-multiple of the batch size 2, was drained
\* after a rate-limit signal.
BatchCompletenessWitness ==
    /\ pc = "done"
    /\ Len(initial_list) = 3
    /\ batch_size = 2
    /\ \E i \in 1..Len(attempts) : attempts[i].outcome = "throttled"
    /\ Len(SuccessfulBatches) = 2

\* C2: after an api_handler failure that is not the rate-limit signal, the
\* executor has stopped: the failed call is the last one and the error left
\* the executor.
FatalOnOtherError ==
    \A i \in 1..Len(attempts) :
        attempts[i].outcome \in {"client_error", "exception"} =>
            /\ i = Len(attempts)
            /\ pc = "raised"

\* The first attempt on the batch that attempt j is about.
FirstAttemptOf(j) ==
    LET earlier == {k \in 1..(j - 1) : attempts[k].outcome = "ok"}
    IN  IF earlier = {} THEN 1
        ELSE (CHOOSE k \in earlier : \A m \in earlier : m <= k) + 1

\* C3: a batch that succeeds after N rate-limit signals was submitted N+1
\* times, with the same contents, with the work list unchanged and one pause
\* after each attempt but the last.
ThrottleResilience ==
    \A j \in 1..Len(attempts) :
        attempts[j].outcome = "ok" =>
            LET first == FirstAttemptOf(j)
                N == Cardinality({k \in first..(j - 1) : attempts[k].outcome = "throttled"})
            IN  /\ j - first + 1 = N + 1
                /\ \A k \in first..j :
                     /\ attempts[k].batch = attempts[j].batch
                     /\ attempts[k].before = attempts[j].before
                /\ \A k \in first..(j - 1) :
                     /\ attempts[k].after = attempts[k].before
                     /\ attempts[k].slept

IsSuffix(s, t) == Len(s) <= Len(t) /\ s = SubSeq(t, Len(t) - Len(s) + 1, Len(t))

\* C4: batches are taken in input order: each batch is the first
\* min(batch_size, remaining) elements of the remaining list, the remaining
\* list is a suffix of the original, and the successful batches followed by
\* what remains are the original list (the original list itself on return).
InputOrder ==
    /\ \A i \in 1..Len(attempts) :
         /\ attempts[i].batch =
              SubSeq(attempts[i].before, 1, Min(batch_size, Len(attempts[i].before)))
         /\ IsSuffix(attempts[i].before, initial_list)
         /\ IsSuffix(attempts[i].after, initial_list)
    /\ IsSuffix(process_list, initial_list)
    /\ Concat(SuccessfulBatches) \o process_list = initial_list
    /\ pc = "done" => Concat(SuccessfulBatches) = initial_list

\* C4 happens: a list of 4 with different items went through in batches of 3.
InputOrderWitness ==
    /\ pc = "done"
    /\ Len(initial_list) = 4
    /\ batch_size = 3
    /\ initial_list[1] # initial_list[4]
    /\ Len(SuccessfulBatches) = 2
    /\ Len(SuccessfulBatches[2]) = 1

\* The calls made on the client that change the ECS.
MutatingOps == {"deregister_task_definition", "delete_task_definitions"}

\* Whether a line starting with `word` was printed.
Printed(word) == \E i \in 1..Len(output) : output[i][1] = word

\* C5: in a dry run neither deregister_task_definition nor
\* delete_task_definitions is ever called.
DryRunNoMutation ==
    ~commit => \A i \in 1..Len(calls) : calls[i].op \notin MutatingOps

\* C5 happens: a dry run with both modes ran to its end, and its handlers were
\* called for a definition to deregister and for one to delete.
DryRunNoMutationWitness ==
    /\ ~commit
    /\ pc = "done"
    /\ set_inactive_mode # "none"
    /\ delete_inactive
    /\ Printed("Deregister")
    /\ Printed("Delete")

\* The task definitions the tasks of the ECS run.
InUseDefinitions == {remote_tasks[i].def : i \in 1..Len(remote_tasks)}

\* Two ARNs of the model's ECS that differ in their revision at most.
SameFamily(a, b) == a[3] = b[3]

\* main() has computed unused_arn_list and handed it to the executor, which
\* keeps it as initial_list.
Reconciled == api_handler = "deregister"

ExampleActive == <<Arn("defA", "1"), Arn("defA", "2"), Arn("defA", "3"),
                   Arn("defB", "1"), Arn("defC", "1")>>
ExampleInUse == <<Arn("defA", "3"), Arn("defB", "1")>>
ExampleInUseCanonical == {canonical_task_definition_arn(a) : a \in Range(ExampleInUse)}

\* C6: an ACTIVE identifier is in the unused list iff no task runs it and,
\* under retain-versions, no task runs a definition of its family; and the
\* example of the specification comes out as stated.
ReconcilerPolicy ==
    /\ Reconciled =>
         /\ Range(initial_list) \subseteq Range(active_arn_list)
         /\ \A a \in Range(active_arn_list) :
              a \in Range(initial_list) <=>
                 /\ a \notin InUseDefinitions
                 /\ set_inactive_mode = "retain-versions" =>
                       \A d \in InUseDefinitions : ~SameFamily(a, d)
    /\ Unused(ExampleActive, "aggressive", ExampleInUse, ExampleInUseCanonical)
         = <<Arn("defA", "1"), Arn("defA", "2"), Arn("defC", "1")>>
    /\ Unused(ExampleActive, "retain-versions", ExampleInUse, ExampleInUseCanonical)
         = <<Arn("defC", "1")>>

\* C6 happens: under retain-versions A:1 runs, A:2 is ACTIVE, idle and kept,
\* and B:1 is ACTIVE, idle and unused.
ReconcilerPolicyWitness ==
    /\ Reconciled
    /\ set_inactive_mode = "retain-versions"
    /\ InUseDefinitions = {Arn("A", "1")}
    /\ Arn("A", "2") \in Range(active_arn_list)
    /\ Arn("A", "2") \notin Range(initial_list)
    /\ Arn("B", "1") \in Range(initial_list)

\* C7: no identifier resolved from a task is in the unused list, is handed to
\* the deregister handler, or is deregistered, under either policy.
InUseRetained ==
    LET resolved == Range(definition_in_use_arn_list)
    IN  /\ Reconciled =>
             /\ Range(initial_list) \cap resolved = {}
             /\ \A i \in 1..Len(attempts) : Range(attempts[i].batch) \cap resolved = {}
        /\ \A i \in 1..Len(calls) :
             calls[i].op = "deregister_task_definition" =>
                 Range(calls[i].arg) \cap resolved = {}

\* C7 happens: under the aggressive policy a definition that runs is ACTIVE
\* and another was deregistered.
InUseRetainedWitness ==
    /\ set_inactive_mode = "aggressive"
    /\ pc = "done"
    /\ Range(definition_in_use_arn_list) \cap Range(active_arn_list) # {}
    /\ \E i \in 1..Len(calls) :
         calls[i].op = "deregister_task_definition" /\ calls[i].outcome = "ok"

\* C8: for the listing and the usage of the run, the unused list of
\* retain-versions is within that of aggressive, the run's own list being the
\* one of its policy.
RetentionMonotonic ==
    Reconciled =>
        LET other == IF set_inactive_mode = "retain-versions" THEN "aggressive"
                     ELSE "retain-versions"
            other_list == Unused(active_arn_list, other, definition_in_use_arn_list,
                                 definition_in_use_canonical_arn_set)
        IN  IF set_inactive_mode = "retain-versions"
            THEN Range(initial_list) \subseteq Range(other_list)
            ELSE Range(other_list) \subseteq Range(initial_list)

\* C8 happens: the two policies differ on the run's listing and usage.
RetentionMonotonicWitness ==
    /\ Reconciled
    /\ set_inactive_mode = "retain-versions"
    /\ Range(initial_list) # {}
    /\ Range(initial_list) #
         Range(Unused(active_arn_list, "aggressive", definition_in_use_arn_list,
                      definition_in_use_canonical_arn_set))

\* C9 as stated: once the version is stripped, stripping again changes nothing.
CanonicalIdempotent ==
    strips >= 1 => canonical_task_definition_arn(arn_value) = arn_value

\* C9, amended: stripping again is a no-op on the empty string alone; on any
\* other string it removes the text from the last ":" on, or the last
\* character when there is no ":", and leaves a strictly shorter prefix.
CanonicalStripsAgain ==
    strips >= 1 =>
        LET again == canonical_task_definition_arn(arn_value)
            cut == SubSeq(arn_value, Len(again) + 1, Len(arn_value))
        IN  /\ again = SubSeq(arn_value, 1, Len(again))
            /\ again = arn_value <=> arn_value = <<>>
            /\ arn_value # <<>> =>
                 /\ Len(again) < Len(arn_value)
                 /\ IF ":" \in Range(arn_value)
                    THEN cut[1] = ":" /\ ":" \notin Range(Tail(cut))
                    ELSE Len(cut) = 1

\* C9 happens: a string with two ":" was stripped once and still holds one.
CanonicalStripsAgainWitness ==
    /\ strips = 1
    /\ Len(arn_value) = 3
    /\ arn_value[2] = ":"
    /\ arn_value[1] # ":"
    /\ arn_value[3] # ":"

\* The describe_tasks calls made so far, each as the tasks it asked for.
DescribeCalls ==
    LET d == SelectSeq(calls, LAMBDA c : c.op = "describe_tasks")
    IN  [i \in 1..Len(d) |-> d[i].arg]

\* ceil(n / d)
CeilDiv(n, d) == (n + d - 1) \div d

\* C10: the tasks listed for the cluster go out in consecutive slices of at
\* most 100, all but the last of exactly 100, each task in one call; on
\* return ceil(n/100) calls were made and the merged result is that of one
\* call on the whole list.
ChunkedResolution ==
    LET listed == TasksOf(remote_tasks, 1)
        n == Len(listed)
        sent == DescribeCalls
    IN  /\ \A i \in 1..Len(sent) :
             /\ Len(sent[i]) >= 1
             /\ Len(sent[i]) <= 100
             /\ i < Len(sent) => Len(sent[i]) = 100
        /\ pc = "describe" =>
             /\ Concat(sent) \o task_arn_list = listed
             /\ arn_list = DescribeTasksResp(remote_tasks, Concat(sent))
        /\ pc = "cluster_loop" =>
             /\ Len(sent) = CeilDiv(n, 100)
             /\ Concat(sent) = listed
             /\ \A t \in Range(listed) :
                  Cardinality({i \in 1..Len(sent) : t \in Range(sent[i])}) = 1
             /\ definition_in_use_arn_list = DescribeTasksResp(remote_tasks, listed)

\* C10 happens: 250 tasks were resolved in calls of 100, 100 and 50.
ChunkedResolutionWitness ==
    /\ pc = "cluster_loop"
    /\ Len(remote_tasks) = 250
    /\ [i \in 1..Len(DescribeCalls) |-> Len(DescribeCalls[i])] = <<100, 100, 50>>
    /\ Len(definition_in_use_arn_list) = 250

\* C11: with neither --set-inactive nor --delete-inactive the run ends in the
\* usage error before anything is done on the ECS: no client is created and
\* no call is made, and nothing but the error is printed.
UsageErrorBeforeCalls ==
    (set_inactive_mode = "none" /\ ~delete_inactive) =>
        /\ calls = <<>>
        /\ pc \in {"start", "exit"}
        /\ pc = "exit" =>
             output = << <<"Error: must supply at least one of --set-inactive or --delete-inactive">> >>

\* C11 happens: a run without a mode has ended in the usage error.
UsageErrorBeforeCallsWitness ==
    /\ set_inactive_mode = "none"
    /\ ~delete_inactive
    /\ pc = "exit"
    /\ Len(output) = 1

\* C12: each "Task count" line gives the number of tasks list_tasks returned
\* for the cluster named on the line before it.
TaskCountReported ==
    \A i \in 2..Len(output) :
        output[i][1] = "Task count" =>
            /\ output[i - 1][1] = "Processing ECS cluster"
            /\ output[i][2] = Len(TasksOf(remote_tasks, output[i - 1][2]))

\* The lines that carry the dry-run marker, by their first word.
MarkedLines == {"Setting unused ECS task definitions ACTIVE -> INACTIVE",
                "Mark INACTIVE ECS task definitions for deletion",
                "Deregister", "Delete"}

\* The printed lines without their dry-run markers.
Unmarked(out) ==
    [i \in 1..Len(out) |->
        IF out[i][1] \in MarkedLines THEN SubSeq(out[i], 1, Len(out[i]) - 1) ELSE out[i]]

\* The printed lines up to the delete branch of main().
BeforeDelete(out) ==
    LET at == {i \in 1..Len(out) :
                 out[i][1] = "Mark INACTIVE ECS task definitions for deletion"}
    IN  IF at = {} THEN out
        ELSE SubSeq(out, 1, (CHOOSE i \in at : \A j \in at : i <= j) - 1)

\* A run with --commit has ended after a dry run that ended too.
BothRunsDone ==
    /\ previous # <<>>
    /\ ~previous[1].commit
    /\ previous[1].pc = "done"
    /\ commit
    /\ pc = "done"

NoFailedMutation ==
    \A i \in 1..Len(calls) : calls[i].op \in MutatingOps => calls[i].outcome = "ok"

\* No task definition was deregistered in the run.
NothingDeregistered ==
    \A i \in 1..Len(calls) : calls[i].op # "deregister_task_definition"

OtherErrorRaised ==
    \E i \in 1..Len(attempts) : attempts[i].outcome \in {"client_error", "exception"}

\* The step is an api_handler call that ended in the rate-limit signal.
ThrottledStep ==
    /\ Len(attempts') = Len(attempts) + 1
    /\ attempts'[Len(attempts')].outcome = "throttled"

\* C14: with finitely many rate-limit signals and no other error the executor
\* returns in the end; it returns with an empty list only; and a rate-limit
\* signal leaves it running on the same list, whose front is the same batch.
ExecutorLiveness ==
    /\ <>(pc = "done" \/ OtherErrorRaised)
    /\ [](pc = "done" => process_list = <<>>)
    /\ [][ThrottledStep =>
            /\ pc' = "exec"
            /\ process_list' = process_list
            /\ Batch(process_list', batch_size) = attempts'[Len(attempts')].batch]_vars

\* C14 happens: the executor returned after a batch was rate-limited twice
\* running, with no other error.
ExecutorLivenessWitness ==
    /\ pc = "done"
    /\ ~OtherErrorRaised
    /\ Len(initial_list) = 3
    /\ \E i \in 1..(Len(attempts) - 2) :
         /\ attempts[i].outcome = "throttled"
         /\ attempts[i + 1].outcome = "throttled"
         /\ attempts[i + 2].outcome = "ok"

\* The calls on the client that only read the ECS.
QueryOps == {"list_clusters", "list_tasks", "describe_tasks", "list_task_definitions"}

\* C15: a failed query call is the last call of the run, which has ended with
\* the error; when it failed before the ACTIVE listing was whole no unused
\* list was computed and the executor never ran, and when the INACTIVE listing
\* failed no delete followed.
QueryFailureAborts ==
    \A i \in 1..Len(calls) :
        (calls[i].op \in QueryOps /\ calls[i].outcome = "error") =>
            /\ i = Len(calls)
            /\ pc = "raised"
            /\ IF calls[i].op = "list_task_definitions" /\ calls[i].arg[1] = "INACTIVE"
               THEN /\ api_handler # "delete"
                    /\ \A j \in 1..Len(calls) : calls[j].op # "delete_task_definitions"
               ELSE /\ api_handler = "none"
                    /\ initial_list = <<>>
                    /\ active_arn_list = <<>>
                    /\ \A j \in 1..Len(calls) : calls[j].op \notin MutatingOps

\* C15 happens: with --commit the tasks of the second cluster could not be
\* resolved after those of the first had been, and the run ended there.
QueryFailureAbortsWitness ==
    /\ commit
    /\ pc = "raised"
    /\ definition_in_use_arn_list # <<>>
    /\ calls[Len(calls)].op = "describe_tasks"
    /\ calls[Len(calls)].outcome = "error"


\* C16: api_handler is never handed an empty batch; the deregister handler is
\* handed exactly one identifier, the first of the list, and calls the client
\* with it; the delete handler is handed, and passes to the client, between 1
\* and ECS_TASK_DEFINITION_DELETE_BATCH_SIZE identifiers.
BatchWidths ==
    /\ \A i \in 1..Len(attempts) :
         LET batch == attempts[i].batch
         IN  /\ batch # <<>>
             /\ api_handler = "deregister" =>
                   /\ Len(batch) = DEREGISTER_BATCH_SIZE
                   /\ batch = <<attempts[i].before[1]>>
             /\ api_handler = "delete" =>
                   Len(batch) \in 1..ECS_TASK_DEFINITION_DELETE_BATCH_SIZE
    /\ \A i \in 1..Len(calls) :
         /\ calls[i].op = "deregister_task_definition" => Len(calls[i].arg) = 1
         /\ calls[i].op = "delete_task_definitions" =>
               Len(calls[i].arg) \in 1..ECS_TASK_DEFINITION_DELETE_BATCH_SIZE

\* C16 happens: more than two full batches were deregistered one by one and
\* then deleted, in full batches and a last one that is not full.
BatchWidthsWitness ==
    /\ pc = "done"
    /\ Len(attempts) >= 3
    /\ \E i, j \in 1..Len(calls) :
         /\ calls[i].op = "deregister_task_definition"
         /\ calls[j].op = "delete_task_definitions"
         /\ Len(calls[j].arg) = ECS_TASK_DEFINITION_DELETE_BATCH_SIZE
    /\ Len(calls[Len(calls)].arg) < ECS_TASK_DEFINITION_DELETE_BATCH_SIZE
    /\ calls[Len(calls)].op = "delete_task_definitions"


\* s is t with some of its elements left out.
RECURSIVE IsSubsequence(_, _)
IsSubsequence(s, t) ==
    IF s = <<>> THEN TRUE
    ELSE IF t = <<>> THEN FALSE
    ELSE IF Head(s) = Head(t) THEN IsSubsequence(Tail(s), Tail(t))
    ELSE IsSubsequence(s, Tail(t))

NoDuplicates(s) == \A i, j \in 1..Len(s) : s[i] = s[j] => i = j

\* The definitions the deregister calls that returned were made with, in the
\* order of the calls.
Deregistered(log) ==
    LET made == SelectSeq(log, LAMBDA c :
                    c.op = "deregister_task_definition" /\ c.outcome = "ok")
    IN  [i \in 1..Len(made) |-> made[i].arg[1]]

\* C17: the unused list is the ACTIVE listing with some identifiers left out,
\* in the listing's order and without a duplicate, and the deregister calls
\* go through it from the front, so in the listing's order.
UnusedInListingOrder ==
    /\ NoDuplicates(active_arn_list)
    /\ IsSubsequence(Deregistered(calls), active_arn_list)
    /\ Reconciled =>
         /\ IsSubsequence(initial_list, active_arn_list)
         /\ Range(initial_list) \subseteq Range(active_arn_list)
         /\ NoDuplicates(initial_list)
         /\ Deregistered(calls) =
               IF commit
               THEN SubSeq(initial_list, 1, Len(initial_list) - Len(process_list))
               ELSE <<>>

\* C17 happens: the definition in the middle of the listing runs a task, the
\* two around it were unused and have been deregistered.
UnusedInListingOrderWitness ==
    /\ Reconciled
    /\ commit
    /\ active_arn_list = ArnList
    /\ initial_list = <<ArnList[1], ArnList[3]>>
    /\ Deregistered(calls) = initial_list


\* The calls to deregister a definition, whatever their outcome.
DeregisterCalls(log) == SelectSeq(log, LAMBDA c : c.op = "deregister_task_definition")

\* C18: in a second committed run with the same policy and the same tasks,
\* the unused list holds only definitions the first run left ACTIVE and no
\* task runs, and only those are deregistered; after a first run that
\* completed the unused list is empty and no deregister call is made.
RerunIdempotent ==
    previous # <<>> =>
        /\ previous[1].pc = "done" =>
              /\ Reconciled => initial_list = <<>>
              /\ DeregisterCalls(calls) = <<>>
        /\ Reconciled =>
              \A i \in 1..Len(initial_list) :
                  /\ initial_list[i] \notin Range(Deregistered(previous[1].calls))
                  /\ initial_list[i] \notin InUseDefinitions
                  /\ remote_status[initial_list[i]] = "ACTIVE" <=>
                        i > Len(initial_list) - Len(process_list)
        /\ \A i \in 1..Len(DeregisterCalls(calls)) :
              LET arn == DeregisterCalls(calls)[i].arg[1]
              IN  /\ arn \notin Range(Deregistered(previous[1].calls))
                  /\ arn \notin InUseDefinitions

\* C18 happens: the first run deregistered what was unused and completed, and
\* the second has listed what is left ACTIVE and found nothing unused in it.
RerunIdempotentWitness ==
    /\ previous # <<>>
    /\ previous[1].pc = "done"
    /\ Deregistered(previous[1].calls) # <<>>
    /\ Reconciled
    /\ active_arn_list # <<>>
    /\ initial_list = <<>>


\* The call that fetches a page of the INACTIVE listing.
ListsInactive(c) == c.op = "list_task_definitions" /\ c.arg[1] = "INACTIVE"

\* C19: no page of the INACTIVE listing is fetched and no delete call is made
\* before a deregister call; the INACTIVE listing starts when the deregister
\* executor has emptied its list; and with --commit what this run has
\* deregistered is in the list its delete executor was entered with.
DeregisterBeforeDelete ==
    /\ \A i, j \in 1..Len(calls) :
         (i < j /\ calls[j].op = "deregister_task_definition") =>
             /\ calls[i].op # "delete_task_definitions"
             /\ ~ListsInactive(calls[i])
    /\ (pc = "list_inactive" /\ set_inactive_mode # "none") =>
         /\ api_handler = "deregister"
         /\ process_list = <<>>
         /\ commit => Deregistered(calls) = initial_list
    /\ (api_handler = "delete" /\ commit) =>
         Range(Deregistered(calls)) \subseteq Range(initial_list)

\* C19 happens: a committed run deregistered two definitions and then deleted
\* them together with one that was INACTIVE before.
DeregisterBeforeDeleteWitness ==
    /\ commit
    /\ pc = "done"
    /\ api_handler = "delete"
    /\ Len(Deregistered(calls)) = 2
    /\ Len(initial_list) = 3
    /\ \E i \in 1..Len(calls) :
         calls[i].op = "delete_task_definitions" /\ calls[i].outcome = "ok"

====
